---- MODULE Spec2Model ----
(***************************************************************************)
(* Model of kalsh_site2.py: the URL-to-local-path mapping                  *)
(* (local_path_for_url), the injected runtime mapper (mapUrl), the         *)
(* response listener (on_response) and the capture run (capture_page) with *)
(* its fallback download loop, reference rewriting and script injection.   *)
(* Text is modelled as TLA+ strings, character by character.  Intermediate *)
(* values are handed on as operator parameters, one step per operator.     *)
(***************************************************************************)
EXTENDS Integers, Sequences, FiniteSets, TLC

VARIABLES
    pc,          \* position of capture_page
    disk,        \* the file system below OUT_DIR: location -> entry
    saved_map,   \* dict of on_response, in insertion order: <<url, rel>>
    url_map,     \* dict of the fallback loop, in insertion order
    html,        \* page.content()
    asset_urls,  \* page.evaluate(...) result
    idx,         \* position of the fallback loop in asset_urls
    rewritten,   \* the markup being rewritten
    handlers,    \* one record per on_response task
    nwrites,     \* per URL: how many write_bytes calls of on_response succeeded
    murl,        \* mapping specification: the URL under consideration
    mpy,         \* mapping specification: result of local_path_for_url
    mjs          \* mapping specification: result of mapUrl

vars == <<pc, disk, saved_map, url_map, html, asset_urls, idx, rewritten,
          handlers, nwrites, murl, mpy, mjs>>

None == "None"

(***************************************************************************)
(* str: the string operations the program uses.  Positions are 1-based and *)
(* 0 stands for "not found".                                               *)
(***************************************************************************)
Char(s, i) == SubSeq(s, i, i)

Substr(s, i, j) == IF i > j THEN "" ELSE SubSeq(s, i, j)

From(s, i) == Substr(s, i, Len(s))

Min(S) == CHOOSE k \in S : \A j \in S : k <= j

Max(S) == CHOOSE k \in S : \A j \in S : j <= k

first_of(S) == IF S = {} THEN 0 ELSE Min(S)

or_else(k, default) == IF k = 0 THEN default ELSE k

startswith_at(s, pat, i) ==
    /\ i >= 1
    /\ i + Len(pat) - 1 <= Len(s)
    /\ Substr(s, i, i + Len(pat) - 1) = pat

startswith(s, pat) == startswith_at(s, pat, 1)

endswith(s, pat) == startswith_at(s, pat, Len(s) - Len(pat) + 1)

\* str.find from position i
find(s, pat, i) ==
    first_of({k \in i..(Len(s) - Len(pat) + 1) : startswith_at(s, pat, k)})

contains(s, pat) == find(s, pat, 1) # 0

\* str.rfind, from position i downwards
rfind(s, pat, i) == Max({0} \cup {k \in 1..i : startswith_at(s, pat, k)})

\* the part of s before (after) position k, all (none) of it when k = 0
before_at(s, k) == IF k = 0 THEN s ELSE Substr(s, 1, k - 1)

after_at(s, k) == IF k = 0 THEN "" ELSE From(s, k + 1)

before(s, c) == before_at(s, find(s, c, 1))

after(s, c) == after_at(s, find(s, c, 1))

\* str.count: the non-overlapping occurrences, left to right
RECURSIVE count_from(_, _, _)
count_next(s, pat, k) == IF k = 0 THEN 0 ELSE 1 + count_from(s, pat, k + Len(pat))

count_from(s, pat, i) == count_next(s, pat, find(s, pat, i))

count(s, pat) == IF pat = "" THEN Len(s) + 1 ELSE count_from(s, pat, 1)

\* the characters of s with sep between them
RECURSIVE spread(_, _)
spread(s, sep) ==
    IF Len(s) <= 1 THEN s
    ELSE spread(Substr(s, 1, Len(s) \div 2), sep) \o sep
         \o spread(From(s, Len(s) \div 2 + 1), sep)

\* str.replace(old, new): every non-overlapping occurrence, left to right
RECURSIVE replace_from(_, _, _, _)
replace_next(s, old, new, i, k) ==
    IF k = 0 THEN From(s, i)
    ELSE Substr(s, i, k - 1) \o new \o replace_from(s, old, new, k + Len(old))

replace_from(s, old, new, i) == replace_next(s, old, new, i, find(s, old, i))

str_replace(s, old, new) ==
    IF old = "" THEN new \o spread(s, new) \o (IF s = "" THEN "" ELSE new)
    ELSE replace_from(s, old, new, 1)

Lowercase == "abcdefghijklmnopqrstuvwxyz"
Uppercase == "ABCDEFGHIJKLMNOPQRSTUVWXYZ"

CharsOf(s) == {Char(s, i) : i \in 1..Len(s)}

UpperSet == CharsOf(Uppercase)
DigitSet == CharsOf("0123456789")
Letters == CharsOf(Lowercase) \cup UpperSet

lower_char(c) ==
    IF c \in UpperSet THEN Char(Lowercase, find(Uppercase, c, 1)) ELSE c

\* str.lower
RECURSIVE lower(_)
lower(s) ==
    IF Len(s) <= 1 THEN lower_char(s)
    ELSE lower(Substr(s, 1, Len(s) \div 2)) \o lower(From(s, Len(s) \div 2 + 1))

\* re.sub(r"[^<keep>]", repl, s) for a character class
RECURSIVE sub_not_in(_, _, _)
sub_not_in(s, keep, repl) ==
    IF s = "" THEN ""
    ELSE IF Len(s) = 1 THEN (IF s \in keep THEN s ELSE repl)
    ELSE sub_not_in(Substr(s, 1, Len(s) \div 2), keep, repl)
         \o sub_not_in(From(s, Len(s) \div 2 + 1), keep, repl)

all_in(s, keep) == \A i \in 1..Len(s) : Char(s, i) \in keep

\* str.split(sep) for a one-character separator
RECURSIVE split(_, _)
split_at(s, sep, k) ==
    IF k = 0 THEN <<s>> ELSE <<Substr(s, 1, k - 1)>> \o split(From(s, k + 1), sep)

split(s, sep) == split_at(s, sep, find(s, sep, 1))

RECURSIVE join(_, _)
join(parts, sep) ==
    IF parts = <<>> THEN ""
    ELSE IF Len(parts) = 1 THEN parts[1]
    ELSE parts[1] \o sep \o join(Tail(parts), sep)

(***************************************************************************)
(* urllib.parse.urlparse as the program uses it: scheme, netloc, path,     *)
(* params, query, fragment.                                                *)
(***************************************************************************)
SchemeChars == Letters \cup DigitSet \cup {"+", "-", "."}

uses_params == {"", "ftp", "hdl", "prospero", "http", "imap", "https", "shttp",
                "rtsp", "rtspu", "sip", "sips", "mms", "sftp", "tel"}

\* the ":" at c ends a scheme: c, else 0
valid_scheme_end(url, c) ==
    IF c > 1 /\ Char(url, 1) \in Letters /\ all_in(Substr(url, 1, c - 1), SchemeChars)
    THEN c ELSE 0

scheme_end(url) == valid_scheme_end(url, find(url, ":", 1))

\* the first of "/", "?", "#" at or after position i; Len(s) + 1 when none
netloc_end(s, i) ==
    or_else(first_of({find(s, c, i) : c \in {"/", "?", "#"}} \ {0}), Len(s) + 1)

\* _splitparams: the ";" that starts the params of the last path segment
params_at(s) ==
    IF contains(s, "/") THEN find(s, ";", rfind(s, "/", Len(s)))
    ELSE find(s, ";", 1)

parsed_url(scheme, netloc, rest, p, query, fragment) ==
    [scheme   |-> scheme,
     netloc   |-> netloc,
     path     |-> before_at(rest, p),
     params   |-> after_at(rest, p),
     query    |-> query,
     fragment |-> fragment]

parse_params(scheme, netloc, rest, query, fragment) ==
    parsed_url(scheme, netloc, rest,
               IF scheme \in uses_params THEN params_at(rest) ELSE 0,
               query, fragment)

parse_query(scheme, netloc, rest, fragment) ==
    parse_params(scheme, netloc, before(rest, "?"), after(rest, "?"), fragment)

parse_fragment(scheme, netloc, rest) ==
    parse_query(scheme, netloc, before(rest, "#"), after(rest, "#"))

parse_netloc_to(scheme, rest, d) ==
    parse_fragment(scheme, Substr(rest, 3, d - 1), From(rest, d))

parse_netloc(scheme, rest) ==
    parse_netloc_to(scheme, rest,
                    IF startswith(rest, "//") THEN netloc_end(rest, 3) ELSE 1)

parse_scheme(url, c) == parse_netloc(lower(Substr(url, 1, c - 1)), From(url, c + 1))

urlparse(url) == parse_scheme(url, scheme_end(url))

(***************************************************************************)
(* pathlib and the file system below OUT_DIR.  A path is the sequence of   *)
(* its components relative to OUT_DIR; disk maps a location to its entry.  *)
(***************************************************************************)
ASSETS_DIR == <<"assets">>

INDEX_HTML == <<"index.html">>

Dir == [kind |-> "dir", data |-> ""]

\* Path(*parts): empty and "." components are dropped
Path(parts) == SelectSeq(parts, LAMBDA x : x \notin {"", "."})

parent(p) == IF p = <<>> THEN <<>> ELSE SubSeq(p, 1, Len(p) - 1)

as_posix(p) == join(p, "/")

\* the location a path names once the operating system has followed its ".."
RECURSIVE resolve_onto(_, _)
resolve_onto(acc, p) ==
    IF p = <<>> THEN acc
    ELSE IF Head(p) = ".." /\ acc # <<>> /\ acc[Len(acc)] # ".."
         THEN resolve_onto(SubSeq(acc, 1, Len(acc) - 1), Tail(p))
    ELSE resolve_onto(Append(acc, Head(p)), Tail(p))

resolve(p) == resolve_onto(<<>>, p)

\* OUT_DIR and the directories above it exist
above(loc) == \A i \in 1..Len(loc) : loc[i] = ".."

dir_at(d, loc) == above(loc) \/ (loc \in DOMAIN d /\ d[loc].kind = "dir")

file_at(d, loc) == loc \in DOMAIN d /\ d[loc].kind = "file"

is_dir(d, p) == dir_at(d, resolve(p))

is_file(d, p) == file_at(d, resolve(p))

exists(d, p) == is_dir(d, p) \/ is_file(d, p)

with_entries(d, locs, entry) ==
    [l \in DOMAIN d \cup locs |-> IF l \in locs THEN entry ELSE d[l]]

\* the directories at locs are wanted: raises when one of them is a regular file
mkdir_all(d, locs) ==
    IF \E l \in locs : file_at(d, l)
    THEN [ok |-> FALSE, disk |-> d]
    ELSE [ok |-> TRUE,
          disk |-> with_entries(d, {l \in locs : ~dir_at(d, l)}, Dir)]

\* Path.mkdir(parents=True, exist_ok=True): raises when the path or one of
\* its ancestors is a regular file, else makes every missing ancestor
mkdir(d, p) == mkdir_all(d, {resolve(SubSeq(p, 1, k)) : k \in 1..Len(p)})

\* Path.write_bytes / write_text: raises on a directory or a missing parent;
\* io_ok = FALSE is a failure of the device (disk full, permission denied)
write(d, p, data, io_ok) ==
    IF ~io_ok \/ is_dir(d, p) \/ ~is_dir(d, parent(p))
    THEN [ok |-> FALSE, disk |-> d]
    ELSE [ok |-> TRUE, disk |-> with_entries(d, {resolve(p)},
                                     [kind |-> "file", data |-> data])]

(***************************************************************************)
(* local_path_for_url                                                      *)
(***************************************************************************)
ALLOWED_HOSTS == {"kalashnikovgroup.ru", "www.kalashnikovgroup.ru",
                  "en.kalashnikovgroup.ru"}

START_URL == "https://kalashnikovgroup.ru/"

\* a filter that rejects data URIs only
SchemeNotData(scheme) == scheme # "data"

\* line 68
SchemeAllowed(scheme) == scheme \in {"http", "https"}

IsExternal(host) == host # "" /\ host \notin ALLOWED_HOSTS

HostSafe == Letters \cup DigitSet \cup {".", "-"}

PathSafe == Letters \cup DigitSet \cup {".", "_", "/", ",", "-"}

\* re.sub(r"/{2,}", "/", s): every run of slashes becomes one slash
RECURSIVE collapse_slashes(_)
collapse_slashes(s) ==
    IF contains(s, "//") THEN collapse_slashes(str_replace(s, "//", "/")) ELSE s

with_index(path) == IF endswith(path, "/") THEN path \o "index" ELSE path

index_path(path) == with_index(IF path = "" THEN "/" ELSE path)

strip_slash(path) == IF startswith(path, "/") THEN From(path, 2) ELSE path

sanitize(path) == collapse_slashes(sub_not_in(path, PathSafe, "_"))

safe_path(path) == sanitize(strip_slash(index_path(path)))

rel_parts(host) ==
    IF IsExternal(host) THEN <<"external", sub_not_in(host, HostSafe, "_")>>
    ELSE <<>>

rel_path(parsed) ==
    Path(rel_parts(parsed.netloc) \o split(safe_path(parsed.path), "/"))

\* none: the function returned None; raised: abs_path.parent.mkdir raised;
\* else (abs_path, rel_posix) is returned and disk is the file system after
\* the mkdir
Location(none, raised, abs_path, rel_posix, d) ==
    [none |-> none, raised |-> raised, abs_path |-> abs_path,
     rel_posix |-> rel_posix, disk |-> d]

placed(d, rp, made) ==
    IF made.ok
    THEN Location(FALSE, FALSE, ASSETS_DIR \o rp, as_posix(<<"assets">> \o rp),
                  made.disk)
    ELSE Location(FALSE, TRUE, <<>>, "", d)

place(d, rp) == placed(d, rp, mkdir(d, parent(ASSETS_DIR \o rp)))

locate(d, parsed) ==
    IF SchemeAllowed(parsed.scheme) THEN place(d, rel_path(parsed))
    ELSE Location(TRUE, FALSE, <<>>, "", d)

local_path_for_url(d, url) == locate(d, urlparse(url))

(***************************************************************************)
(* urllib.parse.urljoin(START_URL, u), line 248                            *)
(***************************************************************************)
uses_relative == {"", "ftp", "http", "gopher", "nntp", "imap", "wais", "file",
                  "https", "shttp", "mms", "prospero", "rtsp", "rtspu", "sftp",
                  "svn", "svn+ssh", "ws", "wss"}

uses_netloc == {"", "ftp", "http", "gopher", "nntp", "telnet", "imap", "wais",
                "file", "mms", "https", "shttp", "snews", "prospero", "rtsp",
                "rtspu", "rsync", "svn", "svn+ssh", "sftp", "nfs", "git",
                "git+ssh", "ws", "wss"}

with_params(path, params) == IF params = "" THEN path ELSE path \o ";" \o params

with_netloc(scheme, netloc, url) ==
    IF netloc # "" \/ (scheme \in uses_netloc \ {""} /\ ~startswith(url, "//"))
    THEN "//" \o netloc \o (IF url # "" /\ ~startswith(url, "/") THEN "/" ELSE "")
         \o url
    ELSE url

with_scheme(scheme, url) == IF scheme = "" THEN url ELSE scheme \o ":" \o url

with_query(url, query) == IF query = "" THEN url ELSE url \o "?" \o query

with_fragment(url, fragment) == IF fragment = "" THEN url ELSE url \o "#" \o fragment

urlunparse(scheme, netloc, path, params, query, fragment) ==
    with_fragment(
        with_query(
            with_scheme(scheme, with_netloc(scheme, netloc, with_params(path, params))),
            query),
        fragment)

\* segments[1:-1] = filter(None, segments[1:-1])
drop_empty_middle(segs) ==
    IF Len(segs) <= 2 THEN segs
    ELSE <<segs[1]>>
         \o SelectSeq(SubSeq(segs, 2, Len(segs) - 1), LAMBDA x : x # "")
         \o <<segs[Len(segs)]>>

RECURSIVE remove_dots(_, _)
remove_dots(acc, segs) ==
    IF segs = <<>> THEN acc
    ELSE IF Head(segs) = ".."
         THEN remove_dots(IF Len(acc) > 1 THEN SubSeq(acc, 1, Len(acc) - 1) ELSE acc,
                          Tail(segs))
    ELSE IF Head(segs) = "." THEN remove_dots(acc, Tail(segs))
    ELSE remove_dots(Append(acc, Head(segs)), Tail(segs))

with_trailing(resolved, segs) ==
    IF segs[Len(segs)] \in {".", ".."} THEN Append(resolved, "") ELSE resolved

resolved_path(segs) ==
    IF join(with_trailing(remove_dots(<<>>, segs), segs), "/") = "" THEN "/"
    ELSE join(with_trailing(remove_dots(<<>>, segs), segs), "/")

base_parts(segs) ==
    IF segs[Len(segs)] # "" THEN SubSeq(segs, 1, Len(segs) - 1) ELSE segs

join_segments(bpath, path) ==
    IF startswith(path, "/") THEN split(path, "/")
    ELSE drop_empty_middle(base_parts(split(bpath, "/")) \o split(path, "/"))

join_scheme(url, b, u, scheme) ==
    IF scheme # b.scheme \/ scheme \notin uses_relative THEN url
    ELSE IF scheme \in uses_netloc /\ u.netloc # ""
    THEN urlunparse(scheme, u.netloc, u.path, u.params, u.query, u.fragment)
    ELSE IF u.path = "" /\ u.params = ""
    THEN urlunparse(scheme, b.netloc, b.path, b.params,
                    IF u.query = "" THEN b.query ELSE u.query, u.fragment)
    ELSE urlunparse(scheme, b.netloc,
                    resolved_path(join_segments(b.path, u.path)),
                    u.params, u.query, u.fragment)

join_parsed(url, b, u) ==
    join_scheme(url, b, u, IF u.scheme = "" THEN b.scheme ELSE u.scheme)

urljoin(base, url) ==
    IF url = "" THEN base ELSE join_parsed(url, urlparse(base), urlparse(url))

(***************************************************************************)
(* on_response: which responses are saved (lines 122-142)                  *)
(***************************************************************************)
status_ok(status) == ~(status < 200 \/ status >= 400)

ContentTypes == {"text/css", "javascript", "application/x-javascript",
                 "application/octet-stream", "application/wasm", "model/",
                 "application/gltf+json", "application/json"}

Extensions == {".css", ".js", ".mjs", ".png", ".jpg", ".jpeg", ".webp", ".gif",
               ".svg", ".ico", ".woff", ".woff2", ".ttf", ".eot", ".otf", ".mp4",
               ".webm", ".mp3", ".ogg", ".wav", ".gltf", ".glb", ".bin", ".wasm",
               ".ktx", ".ktx2", ".basis", ".hdr", ".env", ".dds", ".json"}

has_content_type(ct) == \E x \in ContentTypes : contains(ct, x)

has_extension(name) == \E ext \in Extensions : endswith(name, ext)

is_static_asset(url, content_type) ==
    \/ has_content_type(lower(content_type))
    \/ has_extension(before(lower(url), "?"))
    \/ startswith(urlparse(url).path, "/_next/")

(***************************************************************************)
(* rewriter_js: mapUrl of the injected script (lines 270-286).  The anchor *)
(* element parses an absolute URL as the browser does: the scheme and the  *)
(* host in lower case, the default port dropped, "." and ".." segments of  *)
(* the path resolved, params kept in the path.  A URL without a scheme     *)
(* resolves against the archived page, which is opened from disk.          *)
(***************************************************************************)
default_port(scheme) ==
    IF scheme = "http" THEN ":80" ELSE IF scheme = "https" THEN ":443" ELSE ":"

browser_host(scheme, host) ==
    IF endswith(host, default_port(scheme))
    THEN Substr(host, 1, Len(host) - Len(default_port(scheme)))
    ELSE host

browser_pathname(scheme, path) ==
    IF scheme \notin {"http", "https"} THEN path
    ELSE IF path = "" THEN "/"
    ELSE resolved_path(split(path, "/"))

anchor_of(parsed) ==
    [protocol |-> IF parsed.scheme = "" THEN "file:" ELSE parsed.scheme \o ":",
     host |-> browser_host(parsed.scheme, lower(parsed.netloc)),
     pathname |-> browser_pathname(parsed.scheme,
                                   with_params(parsed.path, parsed.params))]

\* /^(.+\.)?kalashnikovgroup\.ru$/i.test(host), host in lower case
PrimaryRegex(h) ==
    \/ h = "kalashnikovgroup.ru"
    \/ endswith(h, ".kalashnikovgroup.ru") /\ Len(h) > Len(".kalashnikovgroup.ru")

js_rel(host) ==
    IF PrimaryRegex(lower(host)) THEN "assets/"
    ELSE "assets/external/" \o sub_not_in(host, HostSafe, "_") \o "/"

js_safe_path(pathname) ==
    sanitize(strip_slash(with_index(IF pathname = "" THEN "/" ELSE pathname)))

map_anchor(u, a) ==
    IF a.protocol = "file:" \/ startswith(u, "/") \/ startswith(u, "./")
       \/ startswith(u, "../")
    THEN u
    ELSE IF a.protocol \in {"http:", "https:"}
    THEN "/" \o js_rel(a.host) \o js_safe_path(a.pathname)
    ELSE u

mapUrl(u) == map_anchor(u, anchor_of(urlparse(u)))

(***************************************************************************)
(* capture_page: reference rewriting (lines 306-337)                       *)
(***************************************************************************)
\* lines 315-317: the protocol-relative form
replace_proto_rel(text, parsed, local_rel) ==
    IF parsed.netloc # ""
    THEN str_replace(text, "//" \o parsed.netloc \o parsed.path, local_rel)
    ELSE text

\* lines 319-320: the bare path
replace_path(text, path, local_rel) ==
    IF path # "" THEN str_replace(text, path, local_rel) ELSE text

rewrite_parsed(text, parsed, local_rel) ==
    replace_path(replace_proto_rel(text, parsed, local_rel), parsed.path, local_rel)

\* one pair of url_map: lines 312-320
rewrite_pair(text, src_url, local_rel) ==
    rewrite_parsed(str_replace(text, src_url, local_rel), urlparse(src_url), local_rel)

\* for src_url, local_rel in url_map.items(), in insertion order
RECURSIVE rewrite_refs(_, _)
rewrite_refs(text, map) ==
    IF map = <<>> THEN text
    ELSE rewrite_refs(rewrite_pair(text, map[1][1], map[1][2]), Tail(map))

Whitespace == {" ", "\t", "\n", "\r", "\f"}

\* the last position of the run of whitespace that starts at i; i - 1 when none
ws_end(s, i) ==
    or_else(first_of({k \in i..Len(s) : Char(s, k) \notin Whitespace}), Len(s) + 1) - 1

HttpEquivCsp == "http-equiv=\"content-security-policy\""
ContentAttr == "content=\""

\* the tag that opens at i closes at g and holds the http-equiv attribute at k
http_equiv_end(ls, g, k) ==
    IF g # 0 /\ k # 0 /\ k + Len(HttpEquivCsp) - 1 < g THEN ws_end(ls, g + 1) ELSE 0

\* <meta[^>]+http-equiv="Content-Security-Policy"[^>]*>\s* at i
meta_http_equiv_end(ls, i) ==
    IF startswith_at(ls, "<meta", i)
    THEN http_equiv_end(ls, find(ls, ">", i + 5), find(ls, HttpEquivCsp, i + 6))
    ELSE 0

\* the content attribute at k has its closing quote at q and names the
\* policy: the ">" that closes the tag, else 0
csp_value_end(ls, k, q) ==
    IF q # 0 /\ contains(Substr(ls, k + Len(ContentAttr), q - 1), "content-security-policy")
    THEN find(ls, ">", q + 1)
    ELSE 0

content_attr_end(ls, k) ==
    IF startswith_at(ls, ContentAttr, k)
    THEN csp_value_end(ls, k, find(ls, "\"", k + Len(ContentAttr)))
    ELSE 0

\* the attribute is taken as far right as the tag allows (the greedy [^>]+)
content_tag_end(ls, ks) ==
    IF ks = {} THEN 0 ELSE ws_end(ls, content_attr_end(ls, Max(ks)) + 1)

\* <meta[^>]+content="[^"]*Content-Security-Policy[^"]*"[^>]*>\s* at i
meta_content_end(ls, i) ==
    IF startswith_at(ls, "<meta", i)
    THEN content_tag_end(ls,
             {k \in (i + 6)..(or_else(find(ls, ">", i + 5), Len(ls) + 1) - 1) :
                 content_attr_end(ls, k) # 0})
    ELSE 0

\* the attribute's text starts after the whitespace that ends at w
attr_value_end(ls, lit, w) ==
    IF startswith_at(ls, lit, w + 1) THEN find(ls, "\"", w + 1 + Len(lit)) ELSE 0

\* \s+<attr>="[^"]*" at i
attr_end(ls, attr, i) ==
    IF Char(ls, i) \in Whitespace
    THEN attr_value_end(ls, attr \o "=\"", ws_end(ls, i))
    ELSE 0

match_end(kind, ls, i) ==
    CASE kind = "meta-http-equiv" -> meta_http_equiv_end(ls, i)
      [] kind = "meta-content" -> meta_content_end(ls, i)
      [] kind = "integrity" -> attr_end(ls, "integrity", i)
      [] kind = "crossorigin" -> attr_end(ls, "crossorigin", i)

\* re.sub(pattern, "", s, flags=re.IGNORECASE): ls is s in lower case
RECURSIVE re_sub_from(_, _, _, _)
re_sub_next(kind, s, ls, i, k) ==
    IF k = 0 THEN From(s, i)
    ELSE Substr(s, i, k - 1) \o re_sub_from(kind, s, ls, match_end(kind, ls, k) + 1)

re_sub_from(kind, s, ls, i) ==
    re_sub_next(kind, s, ls, i,
                first_of({k \in i..Len(s) : match_end(kind, ls, k) >= k}))

re_sub(kind, s) == re_sub_from(kind, s, lower(s), 1)

\* lines 326-330
strip_csp_sri(text) ==
    re_sub("crossorigin",
        re_sub("integrity",
            re_sub("meta-content",
                re_sub("meta-http-equiv", text))))

rewriter_js == "\n<script>(function(){function mapUrl(u){}})();</script>\n"

\* lines 334-337
inject(text) ==
    IF contains(text, "</head>")
    THEN str_replace(text, "</head>", rewriter_js \o "</head>")
    ELSE rewriter_js \o text

(***************************************************************************)
(* The inputs of a capture run: the responses the browser may report, the  *)
(* pages page.content() may return, each with the URLs the DOM query of    *)
(* lines 232-238 finds in it, and the bound of the model.                  *)
(***************************************************************************)
MaxEvents == 2

UA == "https://kalashnikovgroup.ru/a.js"
ULib == "https://kalashnikovgroup.ru/lib"
ULibApp == "https://kalashnikovgroup.ru/lib/app.js"
UX == "https://cdn.example.com/x%20y.css"
UFtp == "ftp://kalashnikovgroup.ru/a.js"
UData == "data:image/png;base64,AA"
UUp == "https://kalashnikovgroup.ru/../up.png"

EventURLs == {UA, ULib, ULibApp, UFtp}

Statuses == {200, 404}

EventContentTypes == {"application/json", "text/html"}

\* a document that refers to a resource in full, protocol-relative and by
\* its bare path
three_forms(full, proto_rel, bare) ==
    "<head></head><script src=\"" \o full \o "\"></script><img src=\""
    \o proto_rel \o "\"><a href=\"" \o bare \o "\">"

doc_of(u, parsed) == three_forms(u, "//" \o parsed.netloc \o parsed.path, parsed.path)

Doc(u) == doc_of(u, urlparse(u))

CspDoc ==
    "<head><meta http-equiv=\"Content-Security-Policy\" content=\"default-src 'self'\">\n"
    \o "<script src=\"" \o UA \o "\" integrity=\"sha256-x\" crossorigin=\"anonymous\">"
    \o "</script></head>"

TwoHeadsDoc ==
    "<head><script>var t=\"</head>\";</script></head><img src=\"" \o UData
    \o "\"><img src=\"" \o UFtp \o "\">"

NoHeadDoc ==
    "<p><link rel=\"stylesheet\" href=\"/lib\"><script src=\"/lib/app.js\"></script></p>"

SrcsetDoc ==
    "<head><link rel=\"stylesheet\"></head><picture><source srcset=\"a.js?v=2 1x\">"
    \o "</picture>"

UpDoc == "<head></head><picture><source srcset=\"" \o UUp \o " 1x\"></picture>"

Pages ==
    { [html |-> Doc(UA), assets |-> <<UA>>],
      [html |-> Doc(UX), assets |-> <<UX>>],
      [html |-> CspDoc, assets |-> <<UA>>],
      [html |-> TwoHeadsDoc, assets |-> <<UData, UFtp>>],
      [html |-> NoHeadDoc, assets |-> <<ULib, ULibApp>>],
      [html |-> SrcsetDoc, assets |-> <<"", "a.js?v=2">>],
      [html |-> UpDoc, assets |-> <<UUp>>] }

AllURLs ==
    EventURLs \cup UNION {{urljoin(START_URL, p.assets[i]) : i \in 1..Len(p.assets)} :
                             p \in Pages}

(***************************************************************************)
(* dict: insertion-ordered, as a sequence of <<key, value>>                *)
(***************************************************************************)
keys(map) == {map[i][1] : i \in 1..Len(map)}

dict_set(map, k, v) ==
    IF k \in keys(map)
    THEN [i \in 1..Len(map) |-> IF map[i][1] = k THEN <<k, v>> ELSE map[i]]
    ELSE Append(map, <<k, v>>)

(***************************************************************************)
(* capture_page and on_response.  The event loop runs one task at a time   *)
(* and switches tasks only at an await: on_response tasks start and resume *)
(* while capture_page waits at lines 160-227, at line 232 or at line 340.  *)
(* The bytes of a response are named by the URL they were served for.      *)
(***************************************************************************)
AtAwait == pc \in {"navigate", "evaluate", "closing"}

Init ==
    /\ pc = "navigate"
    /\ disk = (ASSETS_DIR :> Dir)
    /\ saved_map = <<>>
    /\ url_map = <<>>
    /\ html = ""
    /\ asset_urls = <<>>
    /\ idx = 1
    /\ rewritten = ""
    /\ handlers = <<>>
    /\ nwrites = [u \in EventURLs |-> 0]
    /\ murl = ""
    /\ mpy = Location(TRUE, FALSE, <<>>, "", <<>>)
    /\ mjs = None

Task(url, st, abs_path, rel) ==
    [url |-> url, st |-> st, abs_path |-> abs_path, rel_path |-> rel]

\* a task that has returned
Finished == Task("", "done", <<>>, "")

\* lines 143-149: the location is computed, then the task awaits the body
DeliverMapped(url, loc) ==
    /\ disk' = loc.disk
    /\ handlers' = Append(handlers,
           IF ~loc.raised /\ ~loc.none /\ url \notin keys(saved_map)
           THEN Task(url, "awaiting", loc.abs_path, loc.rel_posix)
           ELSE Finished)

\* on_response, lines 119-149: from the event to the await of the body
Deliver(url, status, content_type) ==
    /\ AtAwait
    /\ Len(handlers) < MaxEvents
    /\ IF status_ok(status) /\ is_static_asset(url, content_type)
       THEN DeliverMapped(url, local_path_for_url(disk, url))
       ELSE /\ handlers' = Append(handlers, Finished)
            /\ UNCHANGED disk
    /\ UNCHANGED <<pc, saved_map, url_map, html, asset_urls, idx, rewritten,
                   nwrites, murl, mpy, mjs>>

\* lines 152-153: write_bytes, then the insertion into saved_map
ResumeWrite(h, t, w) ==
    IF w.ok
    THEN /\ disk' = w.disk
         /\ saved_map' = dict_set(saved_map, t.url, t.rel_path)
         /\ nwrites' = [nwrites EXCEPT ![t.url] = @ + 1]
    ELSE UNCHANGED <<disk, saved_map, nwrites>>

\* on_response, lines 149-155: response.body() returns the body, or returns
\* None or raises (body_ok = FALSE)
Resume(h, body_ok, io_ok) ==
    /\ AtAwait
    /\ h \in 1..Len(handlers)
    /\ handlers[h].st = "awaiting"
    /\ IF body_ok
       THEN ResumeWrite(h, handlers[h],
                write(disk, handlers[h].abs_path, handlers[h].url, io_ok))
       ELSE UNCHANGED <<disk, saved_map, nwrites>>
    /\ handlers' = [handlers EXCEPT ![h] = Finished]
    /\ UNCHANGED <<pc, url_map, html, asset_urls, idx, rewritten, murl, mpy, mjs>>

\* lines 227-228: page.content() returns and the raw page is written
PageContent(page) ==
    /\ pc = "navigate"
    /\ html' = page.html
    /\ disk' = write(disk, INDEX_HTML, page.html, TRUE).disk
    /\ pc' = "evaluate"
    /\ UNCHANGED <<saved_map, url_map, asset_urls, idx, rewritten, handlers,
                   nwrites, murl, mpy, mjs>>

after_loop(i, list) == IF i > Len(list) THEN "rewrite" ELSE "fallback"

\* lines 232-241: page.evaluate returns the asset URLs of the page
Evaluate(page) ==
    /\ pc = "evaluate"
    /\ page.html = html
    /\ asset_urls' = page.assets
    /\ url_map' = saved_map
    /\ idx' = 1
    /\ pc' = after_loop(1, page.assets)
    /\ UNCHANGED <<disk, saved_map, html, rewritten, handlers, nwrites,
                   murl, mpy, mjs>>

FallbackNext(d, map) ==
    /\ pc' = after_loop(idx + 1, asset_urls)
    /\ disk' = d
    /\ url_map' = map

\* lines 260-265
FallbackWrite(abs_url, loc, w) ==
    IF w.ok
    THEN FallbackNext(w.disk, dict_set(url_map, abs_url, loc.rel_posix))
    ELSE FallbackNext(loc.disk, url_map)

\* lines 253-259: fetched says that fetch_binary returned data
FallbackLoc(abs_url, loc, fetched, io_ok) ==
    IF loc.raised
    THEN /\ pc' = "aborted"
         /\ UNCHANGED <<disk, url_map>>
    ELSE IF loc.none THEN FallbackNext(disk, url_map)
    ELSE IF exists(loc.disk, loc.abs_path)
    THEN FallbackNext(loc.disk, dict_set(url_map, abs_url, loc.rel_posix))
    ELSE IF fetched
    THEN FallbackWrite(abs_url, loc, write(loc.disk, loc.abs_path, abs_url, io_ok))
    ELSE FallbackNext(loc.disk, url_map)

\* lines 243-252
FallbackUrl(u, abs_url, fetched, io_ok) ==
    IF u = "" \/ startswith(u, "data:") \/ abs_url \in keys(url_map)
    THEN FallbackNext(disk, url_map)
    ELSE FallbackLoc(abs_url, local_path_for_url(disk, abs_url), fetched, io_ok)

\* lines 242-265: one iteration of the fallback loop
Fallback(fetched, io_ok) ==
    /\ pc = "fallback"
    /\ FallbackUrl(asset_urls[idx], urljoin(START_URL, asset_urls[idx]),
                   fetched, io_ok)
    /\ idx' = idx + 1
    /\ UNCHANGED <<saved_map, html, asset_urls, rewritten, handlers, nwrites,
                   murl, mpy, mjs>>

\* lines 306-332: the references, then the CSP/SRI attributes
RewriteRefs ==
    /\ pc = "rewrite"
    /\ rewritten' = strip_csp_sri(rewrite_refs(html, url_map))
    /\ pc' = "inject"
    /\ UNCHANGED <<disk, saved_map, url_map, html, asset_urls, idx, handlers,
                   nwrites, murl, mpy, mjs>>

\* lines 333-338: the interceptor, then the archived page is written
Inject ==
    /\ pc = "inject"
    /\ rewritten' = inject(rewritten)
    /\ disk' = write(disk, INDEX_HTML, rewritten', TRUE).disk
    /\ pc' = "closing"
    /\ UNCHANGED <<saved_map, url_map, html, asset_urls, idx, handlers,
                   nwrites, murl, mpy, mjs>>

\* lines 340-341: the context and the browser are closed; asyncio.run ends
Close ==
    /\ pc = "closing"
    /\ pc' = "done"
    /\ UNCHANGED <<disk, saved_map, url_map, html, asset_urls, idx, rewritten,
                   handlers, nwrites, murl, mpy, mjs>>

Next ==
    \/ \E url \in EventURLs, status \in Statuses, ct \in EventContentTypes :
          Deliver(url, status, ct)
    \/ \E h \in 1..MaxEvents, body_ok \in BOOLEAN, io_ok \in BOOLEAN :
          Resume(h, body_ok, io_ok)
    \/ \E page \in Pages : PageContent(page)
    \/ \E page \in Pages : Evaluate(page)
    \/ \E fetched \in BOOLEAN, io_ok \in BOOLEAN : Fallback(fetched, io_ok)
    \/ RewriteRefs
    \/ Inject
    \/ Close

Spec == Init /\ [][Next]_vars

(***************************************************************************)
(* The mapping on its own: local_path_for_url and mapUrl applied to one    *)
(* URL, against a fresh mirror directory.                                  *)
(***************************************************************************)
MapSchemes == {"https", "http", "ftp"}

MapHosts == {"kalashnikovgroup.ru", "www.kalashnikovgroup.ru",
             "en.kalashnikovgroup.ru", "cdn.kalashnikovgroup.ru",
             "cdn.example.com"}

MapPaths == {"", "/", "/a.js", "/about/", "/x%20y.css", "/_next/static/app.js"}

MapQueries == {"", "?v=2"}

MapURLs ==
    {s \o "://" \o h \o p \o q :
        s \in MapSchemes, h \in MapHosts, p \in MapPaths, q \in MapQueries}
    \cup {UData}

InitMap ==
    /\ pc = "map"
    /\ disk = (ASSETS_DIR :> Dir)
    /\ saved_map = <<>>
    /\ url_map = <<>>
    /\ html = ""
    /\ asset_urls = <<>>
    /\ idx = 1
    /\ rewritten = ""
    /\ handlers = <<>>
    /\ nwrites = [u \in EventURLs |-> 0]
    /\ murl \in MapURLs
    /\ mpy = Location(TRUE, FALSE, <<>>, "", <<>>)
    /\ mjs = None

\* loc = local_path_for_url(murl)
PyMap ==
    /\ pc \in {"map", "map-js"}
    /\ mpy' = local_path_for_url(disk, murl)
    /\ disk' = mpy'.disk
    /\ pc' = IF pc = "map" THEN "map-py" ELSE "map-done"
    /\ UNCHANGED <<saved_map, url_map, html, asset_urls, idx, rewritten,
                   handlers, nwrites, murl, mjs>>

\* mapped = mapUrl(murl)
JsMap ==
    /\ pc \in {"map", "map-py"}
    /\ mjs' = mapUrl(murl)
    /\ pc' = IF pc = "map" THEN "map-js" ELSE "map-done"
    /\ UNCHANGED <<disk, saved_map, url_map, html, asset_urls, idx, rewritten,
                   handlers, nwrites, murl, mpy>>

NextMap == PyMap \/ JsMap

SpecMap == InitMap /\ [][NextMap]_vars

(***************************************************************************)
(* Properties                                                              *)
(***************************************************************************)
asset_path(rel) == split(rel, "/")

files(d) == {<<l, d[l].data>> : l \in {x \in DOMAIN d : d[x].kind = "file"}}

\* C1: a document that holds a mapped URL in full, in protocol-relative form
\* and as its bare path holds exactly the local path at each of the three
\* places once the references are rewritten.
RewriteRoundTrip ==
    pc = "inject" =>
        \A i \in 1..Len(url_map) :
            html = Doc(url_map[i][1]) =>
                rewritten = three_forms(url_map[i][2], url_map[i][2], url_map[i][2])

\* C2: on_response writes the body of a URL to disk at most once in a run,
\* however the response events for it interleave.
WrittenAtMostOnce == \A u \in EventURLs : nwrites[u] <= 1

\* C3: no failure while one asset is handled aborts the capture.
NeverAborted == pc # "aborted"

\* C4: for an absolute http/https URL mapUrl yields the reference path that
\* local_path_for_url yields, as a path from the mirror root.
MapUrlAgrees ==
    (pc = "map-done" /\ urlparse(murl).scheme \in {"http", "https"}) =>
        (~mpy.none /\ ~mpy.raised /\ mjs = "/" \o mpy.rel_posix)

\* C5: two distinct URLs recorded in the URLMap never share a local path.
no_shared_path(map) ==
    \A i, j \in 1..Len(map) : map[i][1] # map[j][1] => map[i][2] # map[j][2]

CollisionFree == no_shared_path(saved_map) /\ no_shared_path(url_map)

\* C6: once the archived page is written no response handler writes an asset
\* file or adds a URLMap entry.
persisted_is_final ==
    pc \in {"closing", "done"} =>
        (saved_map' = saved_map /\ files(disk') = files(disk))

NoWriteAfterPersist == [][persisted_is_final]_vars

\* C7: every file and directory of a run lies below assets/ (the archived
\* page aside), a file of a non-primary host below assets/external/<host>/.
below(loc, dir) == Len(loc) > Len(dir) /\ SubSeq(loc, 1, Len(dir)) = dir

in_subtree(d, loc) ==
    \/ loc = INDEX_HTML
    \/ loc = ASSETS_DIR
    \/ /\ below(loc, ASSETS_DIR)
       /\ d[loc].kind = "file" =>
              below(loc, ASSETS_DIR \o rel_parts(urlparse(d[loc].data).netloc))

InsideAssets == \A loc \in DOMAIN disk : in_subtree(disk, loc)

\* C8: a URL whose scheme is not http or https is never mapped:
\* local_path_for_url returns None for it and makes no directory, it is no
\* key of saved_map or url_map, no task awaits its body and no file holds it.
not_http(u) == urlparse(u).scheme \notin {"http", "https"}

never_mapped(u, loc) ==
    /\ loc.none
    /\ loc.disk = disk
    /\ u \notin keys(saved_map) \cup keys(url_map)
    /\ \A h \in 1..Len(handlers) :
          handlers[h].st = "awaiting" => handlers[h].url # u
    /\ \A l \in DOMAIN disk : disk[l].data # u

NonHttpURLs == {u \in AllURLs : not_http(u)}

SchemeFilter ==
    \A u \in NonHttpURLs : never_mapped(u, local_path_for_url(disk, u))

\* reached: the fallback loop has handled a page that names the data URI and
\* the ftp URL, after responses were reported, and the run has ended
SchemeFilterWitness ==
    /\ pc = "done"
    /\ asset_urls = <<UData, UFtp>>
    /\ handlers # <<>>

\* C9: when rewriting starts, every URL of url_map has a regular file at its
\* mapped location.
MapReflectsDisk ==
    pc = "rewrite" =>
        \A i \in 1..Len(url_map) : is_file(disk, asset_path(url_map[i][2]))

\* C10: the archived page holds the interceptor script exactly once, right
\* before the closing head marker, or at the very start when there is none.
InjectedOnce ==
    pc \in {"closing", "done"} =>
        /\ count(rewritten, rewriter_js) = 1
        /\ IF contains(rewritten, "</head>")
           THEN contains(rewritten, rewriter_js \o "</head>")
           ELSE startswith(rewritten, rewriter_js)

====
